---------------------------- MODULE Spec2Model ----------------------------
(***************************************************************************)
(* State-machine model of the e-commerce content-authoring client:         *)
(* the App component's React state (src/App.tsx), the IndexedDB draft      *)
(* store (src/services/storageService.ts) and the remote generation calls  *)
(* (src/unnamed/part_001, imported by App.tsx as services/geminiService).  *)
(*                                                                         *)
(* One action is one synchronous run of a handler or of a promise          *)
(* continuation, from its start (or the await it resumes from) to its next *)
(* await.  React state updates made in one such run are batched and        *)
(* rendered before the next event, so handlers always read the state of    *)
(* the latest render.                                                      *)
(***************************************************************************)
EXTENDS Naturals, Sequences, FiniteSets, TLC

(***************************************************************************)
(* Bounds of the model.                                                    *)
(***************************************************************************)
MaxImages == 2      \* reference images in one ProductInput
MaxHeroes == 1      \* hero entries in one analysis response
MaxSections == 2    \* section entries in one analysis response
MaxActions == 5     \* user actions and auto-save timer firings in one behaviour
MaxPending == 2     \* IndexedDB requests queued at once
MaxPlanSections == 3  \* sections of a plan the edit handlers are applied to
MaxEdits == 2       \* edits applied to such a plan
MaxFiles == 3       \* image files offered to the file input
MaxDim == 2200      \* the largest width or height of an image that is compressed
DimStep == 173      \* the sizes between the small ones and those next to the limit

(***************************************************************************)
(* Values.                                                                 *)
(***************************************************************************)
\* null, for the nullable React states and the empty draft store
NULL == [null |-> TRUE]
\* undefined, for optional string fields (referenceImageId, videoPrompt, ...)
Undefined == "undefined"
\* an optional URL field that is not set
NoUrl == <<>>
\* the error state null: no error banner
NoError == <<>>

\* ProcessingStep
StepInput == "INPUT"
StepAnalyzing == "ANALYZING"
StepPlanning == "PLANNING"
StepPreview == "PREVIEW"
ProcessingStep == {StepInput, StepAnalyzing, StepPlanning, StepPreview}

ItemStatus == {"pending", "generating", "completed", "failed"}

\* HeroImageType and DouyinSectionType, in declaration order
HeroImageType == <<"front_80", "side_cut", "detail_zoom", "scenario_life", "trust_brand">>
DouyinSectionType == <<"header_impact", "product_display", "selling_point_fabe",
                       "scenario_usage", "detail_craft", "specs_size",
                       "trust_endorsement", "promotion_cta">>

\* the two text-only section types (no generate button, initialised completed)
IsTextOnly(type) == type = "specs_size" \/ type = "trust_endorsement"

(***************************************************************************)
(* Sequence helpers: Array.prototype.map / filter / find.                  *)
(***************************************************************************)
Range(s) == {s[i] : i \in DOMAIN s}

\* Array.prototype.find on an id: the index of the first match, 0 if none
FindIndex(s, id) ==
  IF \E i \in DOMAIN s : s[i].id = id
  THEN CHOOSE i \in DOMAIN s : s[i].id = id /\ \A j \in 1..(i - 1) : s[j].id # id
  ELSE 0

\* object spread { ...s, ...p }: the fields of p override those of s
Spread(s, p) ==
  [f \in (DOMAIN s) \cup (DOMAIN p) |-> IF f \in DOMAIN p THEN p[f] ELSE s[f]]

(***************************************************************************)
(* Error values.  A rejection value is an Error with a message, an object  *)
(* with no message property, or null/undefined.  A message is the sequence *)
(* of the phrases it is made of; String.prototype.includes looks for one.  *)
(***************************************************************************)
Includes(message, phrase) == \E i \in DOMAIN message : message[i] = phrase

ErrorOf(message) == [kind |-> "Error", message |-> message]
NoMessageValue == [kind |-> "object", message |-> <<>>]
NullishValue == [kind |-> "nullish", message |-> <<>>]

\* what e.message evaluates to: "throws" for null/undefined e
HasMessage(e) == e.kind = "Error"
MessageThrows(e) == e.kind = "nullish"

(***************************************************************************)
(* Inputs of the environment: what the user uploads and what the analysis  *)
(* service answers.                                                        *)
(***************************************************************************)
ImageIds == <<"i1", "i2", "i3">>
HeroIds == <<"h1", "h2", "h3">>
SectionIds == <<"s1", "s2", "s3", "s4">>
\* an identifier no plan of the model contains
AbsentId == "zz"
\* the prompt the analysis writes, and the one a user edit writes
\* the title the analysis writes
PlanTitle == "t0"
PlanPrompt == "p0"
UserPrompt == "p1"

\* the type the modelled response gives its k-th section: an image module
\* first, a text-only module second
RespSectionType == <<"header_impact", "specs_size", "product_display",
                     "trust_endorsement">>

RefImage(k, label) == [id |-> ImageIds[k], label |-> label]

\* a hero / section entry as the service returns it (the response schema's
\* fields; the optional fields the schema does not define are not set)
RespHero(k, id, ref, rawStatus) ==
  [id |-> id, type |-> HeroImageType[k], imagePrompt |-> PlanPrompt,
   referenceImageId |-> ref, status |-> rawStatus,
   generatedImageUrl |-> NoUrl, generatedVideoUrl |-> NoUrl,
   videoStatus |-> rawStatus, videoPrompt |-> Undefined]

RespSection(k, id, ref, rawStatus) ==
  [id |-> id, type |-> RespSectionType[k], imagePrompt |-> PlanPrompt,
   referenceImageId |-> ref, status |-> rawStatus,
   generatedImageUrl |-> NoUrl]

\* the inputs of the session specification: one "main" image, and a
\* response with MaxHeroes heroes and MaxSections sections, distinct ids,
\* each referring to the uploaded image
SessionInputs == {[referenceImages |-> <<RefImage(1, "main")>>]}

SessionResponses ==
  {[refinedTitle |-> PlanTitle, heroImages |-> [k \in 1..MaxHeroes |-> RespHero(k, HeroIds[k], ImageIds[1], Undefined)],
    sections |-> [k \in 1..MaxSections |-> RespSection(k, SectionIds[k], ImageIds[1], Undefined)]]}

\* rejection values of the analysis call
AnalysisRejections ==
  {ErrorOf(<<"No analysis generated">>), ErrorOf(<<"403">>), NullishValue}

\* outcomes of one IndexedDB request: done, openDB rejected (caught by the
\* service's try/catch), or the request itself failed (the returned promise
\* rejects outside the try/catch)
DbOutcomes == {"ok", "openFail", "reqFail"}

(***************************************************************************)
(* State.                                                                  *)
(***************************************************************************)
VARIABLES
  step,            \* App state: ProcessingStep
  inputData,       \* App state: ProductInput or NULL
  analysis,        \* App state: AnalysisResult or NULL
  error,           \* App state: the global error message, NoError for null
  showSettings,    \* App state: the settings modal is open
  isLoadingState,  \* App state: the persisted draft is still being loaded
  timer,           \* the pending auto-save timeout: the draft it will save, or NULL
  db,              \* IndexedDB record 'current_draft', or NULL
  dbq,             \* IndexedDB requests issued and not yet done, oldest first
  ops,             \* remote calls in flight, each with its awaiting continuation
  count,           \* history: how many user actions and timer firings so far
  issued,          \* history: <<kind, id>> of every generation call issued so far
  last,            \* history: the handler or continuation that ran last
  settings,        \* localStorage 'douyin_ai_settings': the stored AppSettings
  env,             \* process.env.API_KEY of the build
  grok,            \* one invocation of generateGrokVideo: its position and locals
  picker,          \* InputStep: its `images` state and the FileReaders still reading
  canvas           \* one invocation of compressImage: the image loaded and the size drawn

vars == <<step, inputData, analysis, error, showSettings, isLoadingState,
          timer, db, dbq, ops, count, issued, last, settings, env, grok,
          picker, canvas>>

\* what the handlers of App never write
service == <<settings, env, grok, picker, canvas>>

appState == <<step, inputData, analysis, error, showSettings, isLoadingState>>

Ran(act, id, res) == [act |-> act, id |-> id, res |-> res]
\* a continuation resumed by a rejection, with the value e rejected with
Threw(act, id, res, e) == [act |-> act, id |-> id, res |-> res, e |-> e]

(***************************************************************************)
(* Settings and credentials (storageService.ts 83-99, geminiService 6-27,  *)
(* 374-379, 434-447; SettingsModal.tsx 34-41).                             *)
(***************************************************************************)
\* what a key field of the settings modal can hold when it is saved
KeyInputs == {"", "  ", " key "}

\* String.prototype.trim
Trim(s) == IF s = "  " THEN "" ELSE IF s = " key " THEN "key" ELSE s

\* loadSettings with nothing stored: {}
NoSettings ==
  [googleApiKey |-> Undefined, videoProvider |-> Undefined, grokApiKey |-> Undefined]

\* `!v` of a string or undefined
Falsy(v) == v \in {Undefined, ""}

\* geminiService 6-14: the active key, Undefined where getApiKey throws
getApiKey(s, e) ==
  LET custom == IF s.googleApiKey = Undefined THEN Undefined ELSE Trim(s.googleApiKey)
      apiKey == IF Falsy(custom) THEN e ELSE custom
  IN IF Falsy(apiKey) THEN Undefined ELSE apiKey

\* line 11 and line 379
ApiKeyNotSet == ErrorOf(<<"API Key not set. Please configure it in settings.">>)
GrokKeyMissing == ErrorOf(<<"Grok API Key is missing. Please set it in Settings.">>)

\* line 442: settings.videoProvider || 'google'
videoProvider(s) == IF Falsy(s.videoProvider) THEN "google" ELSE s.videoProvider

\* the check before the first request with the Provider B branch left out
preflightGoogleOnly(kind, s, e) ==
  IF getApiKey(s, e) = Undefined THEN ApiKeyNotSet ELSE NULL

\* what a call of the service throws before its first request, NULL if it
\* sends one: getAiClient is the first statement of analyzeProductData (113),
\* generateProductImage (257) and generateVeoVideo (326), and line 379 is the
\* first of generateGrokVideo
preflight(kind, s, e) ==
  IF kind = "video" /\ videoProvider(s) = "grok"
  THEN IF Falsy(s.grokApiKey) THEN GrokKeyMissing ELSE NULL
  ELSE IF getApiKey(s, e) = Undefined THEN ApiKeyNotSet ELSE NULL

\* no invocation of generateGrokVideo under way
GrokIdle ==
  [pc |-> "idle", i |-> 0, requests |-> 0, polls |-> 0, answer |-> "", result |-> NULL]

\* InputStep.tsx 19: no image uploaded, no file being read
NoUploads == [images |-> <<>>, readers |-> {}]

\* a key is stored, Provider A makes the videos, the build carries no key;
\* nothing uploaded yet and no image being compressed
Configured ==
  /\ settings = [googleApiKey |-> "key", videoProvider |-> "google", grokApiKey |-> ""]
  /\ env = Undefined
  /\ grok = GrokIdle
  /\ picker = NoUploads
  /\ canvas = NULL

(***************************************************************************)
(* The auto-save effect (App.tsx, effect 2).  It runs after a render in     *)
(* which inputData, analysis, step or isLoadingState changed identity: it  *)
(* clears the pending timer and, under its condition, sets a new one       *)
(* holding the values of that render.                                      *)
(***************************************************************************)
Draft(in, an, st) == [inputData |-> in, analysis |-> an, step |-> st]

\* the effect's condition without its test of the plan
AutoSaveNoPlanTest(in, an, st, loading) ==
  IF st # StepInput /\ in # NULL /\ ~loading
  THEN Draft(in, an, st)
  ELSE NULL

AutoSave(in, an, st, loading) ==
  IF st # StepInput /\ an # NULL /\ in # NULL /\ ~loading
  THEN Draft(in, an, st)
  ELSE NULL

DbRequest(req, owner, data) == [req |-> req, owner |-> owner, data |-> data]

(***************************************************************************)
(* Construction: the initial React state, and the mount effect's           *)
(* loadAppState() request already issued.                                  *)
(***************************************************************************)
Mounted ==
  /\ step = StepInput
  /\ inputData = NULL
  /\ analysis = NULL
  /\ error = NoError
  /\ showSettings = FALSE
  /\ isLoadingState = TRUE
  /\ timer = NULL
  /\ ops = {}

Init ==
  /\ Mounted
  /\ db = NULL
  /\ dbq = <<DbRequest("load", "loadState", NULL)>>
  /\ count = 0
  /\ issued = {}
  /\ last = Ran("mount", "", "")
  /\ Configured

(***************************************************************************)
(* loadState (App.tsx, effect 1) resumed by the result of loadAppState().  *)
(***************************************************************************)
loadState(o) ==
  /\ dbq # <<>> /\ Head(dbq).owner = "loadState"
  /\ dbq' = Tail(dbq)
  /\ LET savedState == IF o = "ok" THEN db ELSE NULL
         restored == savedState # NULL /\ savedState.step # StepInput
     IN /\ inputData' = IF restored THEN savedState.inputData ELSE inputData
        /\ analysis' = IF restored THEN savedState.analysis ELSE analysis
        /\ step' = IF restored THEN savedState.step ELSE step
        /\ isLoadingState' = FALSE
        /\ timer' = AutoSave(inputData', analysis', step', FALSE)
        /\ last' = Ran("loadState", "", IF restored THEN "restored" ELSE o)
  /\ UNCHANGED <<service, error, showSettings, db, ops, count, issued>>

\* the effect without its cleanup: a pending timer is left to fire
EffectKeepsPending(touched) ==
  timer' = IF timer # NULL THEN timer
           ELSE AutoSave(inputData', analysis', step', isLoadingState')

\* the effect's timer after a run that set the states: re-run when a
\* dependency changed value, or when a setter stored a new object (touched)
Effect(touched) ==
  timer' = IF touched \/ <<inputData', analysis', step', isLoadingState'>>
                          # <<inputData, analysis, step, isLoadingState>>
           THEN AutoSave(inputData', analysis', step', isLoadingState')
           ELSE timer

(***************************************************************************)
(* handleStart (App.tsx 76-116).                                           *)
(***************************************************************************)
\* lines 94-108: the plan stored from the service's result
sectionsWithStatus(result) ==
  [i \in DOMAIN result.sections |->
     Spread(result.sections[i],
            [status |-> IF IsTextOnly(result.sections[i].type)
                        THEN "completed" ELSE "pending",
             isEditing |-> FALSE])]

\* lines 100-105 with the spread last: a status the response carries wins
heroImagesKeepStatus(result) ==
  [i \in DOMAIN result.heroImages |->
     Spread([status |-> "pending", isEditing |-> FALSE, videoStatus |-> "pending"],
            [f \in {g \in DOMAIN result.heroImages[i] :
                      result.heroImages[i][g] # Undefined} |->
               result.heroImages[i][f]])]

heroImagesWithStatus(result) ==
  [i \in DOMAIN result.heroImages |->
     Spread(result.heroImages[i],
            [status |-> "pending", isEditing |-> FALSE, videoStatus |-> "pending"])]

\* lines 76-82: up to `await clearAppState()`
handleStart(data) ==
  /\ ~isLoadingState /\ step = StepInput
  /\ data.referenceImages # <<>>
  /\ count < MaxActions /\ Len(dbq) < MaxPending
  /\ inputData' = data
  /\ step' = StepAnalyzing
  /\ error' = NoError
  /\ dbq' = Append(dbq, DbRequest("clear", "handleStart", data))
  /\ count' = count + 1
  /\ last' = Ran("handleStart", "", "await")
  /\ UNCHANGED <<service, analysis, showSettings, isLoadingState, db, ops, issued>>
  /\ Effect(TRUE)

\* line 82 resumed, up to `await analyzeProductData(...)`
handleStartCleared(o) ==
  /\ dbq # <<>> /\ Head(dbq).owner = "handleStart"
  /\ dbq' = Tail(dbq)
  /\ db' = IF o = "ok" THEN NULL ELSE db
  /\ IF o = "reqFail"
     THEN /\ ops' = ops
          /\ last' = Ran("handleStart", "", "uncaught")
     ELSE /\ ops' = ops \cup {[kind |-> "analyze", data |-> Head(dbq).data,
                               threw |-> preflight("analyze", settings, env)]}
          /\ last' = Ran("handleStart", "", "analyzing")
  /\ UNCHANGED <<service, appState, timer, count, issued>>

\* lines 94 and 101 do not throw: `result` has both of its lists
WellFormed(result) == {"sections", "heroImages"} \subseteq DOMAIN result

\* the TypeError of `result.sections.map` / `result.heroImages.map`
MapTypeError == ErrorOf(<<"Cannot read properties of undefined (reading 'map')">>)

\* the catch of lines 111-115 without its setStep
handleStartCatchNoStep(err) ==
  IF MessageThrows(err)
  THEN /\ UNCHANGED <<error, step>>
       /\ last' = Ran("handleStart", "", "uncaught")
  ELSE /\ error' = IF HasMessage(err) /\ err.message # <<>>
                   THEN err.message
                   ELSE <<"An error occurred during processing.">>
       /\ UNCHANGED step
       /\ last' = Ran("handleStart", "", "failed")

\* lines 111-115: the catch of handleStart, entered with `err`
handleStartCatch(err) ==
  IF MessageThrows(err)
  THEN /\ UNCHANGED <<error, step>>
       /\ last' = Ran("handleStart", "", "uncaught")
  ELSE /\ error' = IF HasMessage(err) /\ err.message # <<>>
                   THEN err.message
                   ELSE <<"An error occurred during processing.">>
       /\ step' = StepInput
       /\ last' = Ran("handleStart", "", "failed")

\* lines 86-109: the analysis call resolved with `result`
analysisResolved(op, result) ==
  /\ op \in ops /\ op.kind = "analyze"
  /\ op.threw = NULL
  /\ ops' = ops \ {op}
  /\ IF WellFormed(result)
     THEN /\ analysis' = [result EXCEPT !.sections = sectionsWithStatus(result),
                                        !.heroImages = heroImagesWithStatus(result)]
          /\ step' = StepPlanning
          /\ last' = [act |-> "handleStart", id |-> "", res |-> "planned", result |-> result]
          /\ UNCHANGED error
     ELSE /\ handleStartCatch(MapTypeError)
          /\ UNCHANGED analysis
  /\ UNCHANGED <<service, inputData, showSettings, isLoadingState, db, dbq, count, issued>>
  /\ Effect(WellFormed(result))

\* lines 111-115: the analysis call rejected with `err`
analysisRejected(op, err) ==
  /\ op \in ops /\ op.kind = "analyze"
  /\ op.threw # NULL => err = op.threw
  /\ ops' = ops \ {op}
  /\ handleStartCatch(err)
  /\ UNCHANGED <<service, inputData, analysis, showSettings, isLoadingState, db, dbq, count, issued>>
  /\ Effect(FALSE)

(***************************************************************************)
(* handleReset (App.tsx 66-74), with window.confirm answered yes.          *)
(***************************************************************************)
handleReset ==
  /\ ~isLoadingState /\ step # StepInput
  /\ count < MaxActions /\ Len(dbq) < MaxPending
  /\ dbq' = Append(dbq, DbRequest("clear", "handleReset", NULL))
  /\ count' = count + 1
  /\ last' = Ran("handleReset", "", "await")
  /\ UNCHANGED <<service, appState, timer, db, ops, issued>>

handleResetCleared(o) ==
  /\ dbq # <<>> /\ Head(dbq).owner = "handleReset"
  /\ dbq' = Tail(dbq)
  /\ db' = IF o = "ok" THEN NULL ELSE db
  /\ IF o = "reqFail"
     THEN /\ UNCHANGED <<inputData, analysis, step>>
          /\ last' = Ran("handleReset", "", "uncaught")
     ELSE /\ inputData' = NULL
          /\ analysis' = NULL
          /\ step' = StepInput
          /\ last' = Ran("handleReset", "", "done")
  /\ UNCHANGED <<service, error, showSettings, isLoadingState, ops, count, issued>>
  /\ Effect(FALSE)

(***************************************************************************)
(* The auto-save timer (App.tsx 58-61) and saveAppState.                   *)
(***************************************************************************)
timerFired ==
  /\ timer # NULL
  /\ count < MaxActions /\ Len(dbq) < MaxPending
  /\ count' = count + 1
  /\ dbq' = Append(dbq, DbRequest("save", "saveAppState", timer))
  /\ timer' = NULL
  /\ last' = Ran("autoSave", "", "await")
  /\ UNCHANGED <<service, appState, db, ops, issued>>

saveAppState(o) ==
  /\ dbq # <<>> /\ Head(dbq).owner = "saveAppState"
  /\ dbq' = Tail(dbq)
  /\ db' = IF o = "ok" THEN Head(dbq).data ELSE db
  /\ last' = Ran("saveAppState", "", o)
  /\ UNCHANGED <<service, appState, timer, ops, count, issued>>

(***************************************************************************)
(* The page is reloaded: the script's state and its pending continuations  *)
(* are gone, the draft store stays, and the App mounts again.              *)
(***************************************************************************)
reload ==
  /\ dbq = <<>> /\ ~isLoadingState
  /\ count < MaxActions
  /\ step' = StepInput
  /\ inputData' = NULL
  /\ analysis' = NULL
  /\ error' = NoError
  /\ showSettings' = FALSE
  /\ isLoadingState' = TRUE
  /\ timer' = NULL
  /\ ops' = {}
  /\ dbq' = <<DbRequest("load", "loadState", NULL)>>
  /\ count' = count + 1
  /\ last' = Ran("mount", "", "")
  /\ UNCHANGED <<service, db, issued>>

(***************************************************************************)
(* The functional state updates of the generation handlers.                *)
(***************************************************************************)
\* App.tsx 220-226: (status, url) => setAnalysis(prev => ...)
setSectionImage(prev, sectionId, status, url) ==
  IF prev = NULL THEN NULL
  ELSE [prev EXCEPT !.sections =
          [i \in DOMAIN prev.sections |->
             IF prev.sections[i].id = sectionId
             THEN Spread(prev.sections[i], [status |-> status, generatedImageUrl |-> url])
             ELSE prev.sections[i]]]

\* the updater keeping the image the hero has when it is given none
setHeroImageKeepsUrl(prev, heroId, status, url) ==
  IF prev = NULL THEN NULL
  ELSE [prev EXCEPT !.heroImages =
          [i \in DOMAIN prev.heroImages |->
             IF prev.heroImages[i].id = heroId
             THEN Spread(prev.heroImages[i],
                         [status |-> status,
                          generatedImageUrl |->
                            IF url = NoUrl THEN prev.heroImages[i].generatedImageUrl
                            ELSE url])
             ELSE prev.heroImages[i]]]

\* App.tsx 241-247
setHeroImage(prev, heroId, status, url) ==
  IF prev = NULL THEN NULL
  ELSE [prev EXCEPT !.heroImages =
          [i \in DOMAIN prev.heroImages |->
             IF prev.heroImages[i].id = heroId
             THEN Spread(prev.heroImages[i], [status |-> status, generatedImageUrl |-> url])
             ELSE prev.heroImages[i]]]

\* the updater with the test `s.id === itemId` left out of its map
stateUpdaterEveryItem(kind, prev, itemId, status, url) ==
  IF prev = NULL THEN NULL
  ELSE IF kind = "section"
  THEN [prev EXCEPT !.sections =
          [i \in DOMAIN prev.sections |->
             Spread(prev.sections[i], [status |-> status, generatedImageUrl |-> url])]]
  ELSE [prev EXCEPT !.heroImages =
          [i \in DOMAIN prev.heroImages |->
             Spread(prev.heroImages[i], [status |-> status, generatedImageUrl |-> url])]]

\* lines 219-227 and 240-248: the stateUpdater passed to generateImageForItem
stateUpdater(kind, prev, itemId, status, url) ==
  IF kind = "section"
  THEN setSectionImage(prev, itemId, status, url)
  ELSE setHeroImage(prev, itemId, status, url)

\* App.tsx 169-175, 185-191, 200-206: merge `fields` into the hero
setHeroVideo(prev, heroId, fields) ==
  IF prev = NULL THEN NULL
  ELSE [prev EXCEPT !.heroImages =
          [i \in DOMAIN prev.heroImages |->
             IF prev.heroImages[i].id = heroId
             THEN Spread(prev.heroImages[i], fields)
             ELSE prev.heroImages[i]]]

(***************************************************************************)
(* generateImageForItem (App.tsx 119-156).                                 *)
(***************************************************************************)
\* lines 131-134 without the search for the 'main' label
selectReferenceFirst(images, referenceImageId) ==
  LET byId == FindIndex(images, referenceImageId)
  IN IF byId # 0 THEN byId
     ELSE IF images # <<>> THEN 1
     ELSE 0

\* lines 131-134: index of the reference image used, 0 if there is none
selectReference(images, referenceImageId) ==
  LET byId == FindIndex(images, referenceImageId)
      mains == {i \in DOMAIN images : images[i].label = "main"}
  IN IF byId # 0 THEN byId
     ELSE IF mains # {} THEN CHOOSE i \in mains : \A j \in mains : i <= j
     ELSE IF images # <<>> THEN 1
     ELSE 0

\* the URL of the image / video the n-th generation call returns
ImageUrl(n) == <<"img", n>>
VideoUrl(n) == <<"vid", n>>

\* lines 125-141: up to `await generateProductImage(...)`
generateImageForItem(kind, itemId, referenceImageId, prompt) ==
  IF inputData = NULL
  THEN /\ UNCHANGED <<analysis, error, ops, issued>>
       /\ last' = Ran(kind, itemId, "no input")
  ELSE LET ref == selectReference(inputData.referenceImages, referenceImageId)
           generating == stateUpdater(kind, analysis, itemId, "generating", NoUrl)
       IN IF ref = 0
          THEN /\ analysis' = stateUpdater(kind, generating, itemId, "failed", NoUrl)
               /\ error' = <<"No reference image available">>
               /\ UNCHANGED <<ops, issued>>
               /\ last' = Ran(kind, itemId, "failed")
          ELSE /\ analysis' = generating
               /\ ops' = ops \cup {[kind |-> kind, id |-> itemId, n |-> count + 1,
                                    ref |-> inputData.referenceImages[ref].id,
                                    prompt |-> prompt,
                                    threw |-> preflight(kind, settings, env)]}
               /\ issued' = issued \cup {<<kind, itemId>>}
               /\ UNCHANGED error
               /\ last' = Ran(kind, itemId, "issued")

\* App.tsx 210-229.  The generate button of a section is rendered with the
\* plan (step # Input), not for text-only types, and disabled while the
\* section is generating (SectionControl.tsx 110-121).
handleGenerateSection(sectionId) ==
  /\ ~isLoadingState /\ count < MaxActions
  /\ count' = count + 1
  /\ LET idx == IF analysis = NULL THEN 0 ELSE FindIndex(analysis.sections, sectionId)
     IN IF idx = 0
        THEN /\ UNCHANGED <<analysis, error, ops, issued>>
             /\ last' = Ran("section", sectionId, IF analysis = NULL THEN "no plan" ELSE "absent")
        ELSE /\ step # StepInput
             /\ analysis.sections[idx].status # "generating"
             /\ ~IsTextOnly(analysis.sections[idx].type)
             /\ generateImageForItem("section", sectionId,
                                     analysis.sections[idx].referenceImageId,
                                     analysis.sections[idx].imagePrompt)
  /\ UNCHANGED <<service, inputData, step, showSettings, isLoadingState, db, dbq>>
  /\ Effect(analysis # NULL /\ analysis' # analysis)

\* App.tsx 231-250; the button is disabled while the hero image is
\* generating (Preview.tsx 432-439)
handleGenerateHeroImage(heroId) ==
  /\ ~isLoadingState /\ count < MaxActions
  /\ count' = count + 1
  /\ LET idx == IF analysis = NULL THEN 0 ELSE FindIndex(analysis.heroImages, heroId)
     IN IF idx = 0
        THEN /\ UNCHANGED <<analysis, error, ops, issued>>
             /\ last' = Ran("hero", heroId, IF analysis = NULL THEN "no plan" ELSE "absent")
        ELSE /\ step # StepInput
             /\ analysis.heroImages[idx].status # "generating"
             /\ generateImageForItem("hero", heroId,
                                     analysis.heroImages[idx].referenceImageId,
                                     analysis.heroImages[idx].imagePrompt)
  /\ UNCHANGED <<service, inputData, step, showSettings, isLoadingState, db, dbq>>
  /\ Effect(analysis # NULL /\ analysis' # analysis)

\* line 143: generateProductImage resolved
imageResolved(op) ==
  /\ op \in ops /\ op.kind \in {"section", "hero"}
  /\ op.threw = NULL
  /\ ops' = ops \ {op}
  /\ analysis' = stateUpdater(op.kind, analysis, op.id, "completed", ImageUrl(op.n))
  /\ last' = Ran(op.kind, op.id, "completed")
  /\ UNCHANGED <<service, inputData, step, error, showSettings, isLoadingState, db, dbq, count, issued>>
  /\ Effect(analysis # NULL)

\* part_001 305-311: generateProductImage's catch rewrites an Error whose
\* message includes '403' and rethrows everything else as it is
rethrown(error_) ==
  IF error_.kind = "Error" /\ Includes(error_.message, "403")
  THEN ErrorOf(<<"Permission Denied", "403">>)
  ELSE error_

\* the test of lines 149 and 196 without its second disjunct
isStatus403(e) == Includes(e.message, "403")

\* e.message.includes('403') || e.message.includes('Permission Denied')
isPermissionError(e) ==
  Includes(e.message, "403") \/ Includes(e.message, "Permission Denied")

\* lines 144-155: generateProductImage rejected
imageRejected(op, rejection) ==
  /\ op \in ops /\ op.kind \in {"section", "hero"}
  /\ op.threw # NULL => rejection = op.threw
  /\ ops' = ops \ {op}
  /\ analysis' = stateUpdater(op.kind, analysis, op.id, "failed", NoUrl)
  /\ LET e == rethrown(rejection)
     IN IF ~HasMessage(e)
        THEN /\ UNCHANGED <<error, showSettings>>
             /\ last' = Threw(op.kind, op.id, "uncaught", rejection)
        ELSE IF isPermissionError(e)
        THEN /\ error' = <<"apiKeyError">>
             /\ showSettings' = TRUE
             /\ last' = Threw(op.kind, op.id, "failed", rejection)
        ELSE /\ error' = IF e.message # <<>> THEN e.message
                         ELSE <<"Image generation failed. Please try again.">>
             /\ UNCHANGED showSettings
             /\ last' = Threw(op.kind, op.id, "failed", rejection)
  /\ UNCHANGED <<service, inputData, step, isLoadingState, db, dbq, count, issued>>
  /\ Effect(analysis # NULL)

(***************************************************************************)
(* handleGenerateHeroVideo (App.tsx 159-208).                              *)
(***************************************************************************)
\* the guard of line 163 reading the prompt of the image instead of its URL
hasPrompt(hero) == hero.imagePrompt # ""

\* line 163: the guard `!hero.generatedImageUrl` is false
hasImage(hero) == hero.generatedImageUrl # NoUrl

\* lines 160-183: up to `await generateProductVideo(...)`.  The button that
\* calls it is disabled while the video is generating (Preview.tsx 515-520).
handleGenerateHeroVideo(heroId) ==
  /\ ~isLoadingState /\ count < MaxActions
  /\ count' = count + 1
  /\ LET idx == IF analysis = NULL THEN 0 ELSE FindIndex(analysis.heroImages, heroId)
     IN IF idx = 0
        THEN /\ UNCHANGED <<analysis, ops, issued>>
             /\ last' = Ran("video", heroId, IF analysis = NULL THEN "no plan" ELSE "absent")
        ELSE LET hero == analysis.heroImages[idx]
             IN /\ step # StepInput
                /\ hero.videoStatus # "generating"
                /\ IF ~hasImage(hero)
                   THEN /\ UNCHANGED <<analysis, ops, issued>>
                        /\ last' = Ran("video", heroId, "rejected")
                   ELSE /\ analysis' = setHeroVideo(analysis, heroId,
                                                    [videoStatus |-> "generating"])
                        /\ ops' = ops \cup
                             {[kind |-> "video", id |-> heroId, n |-> count + 1,
                               image |-> hero.generatedImageUrl,
                               prompt |-> IF hero.videoPrompt \in {Undefined, ""}
                                          THEN "Slow cinematic pan"
                                          ELSE hero.videoPrompt,
                               threw |-> preflight("video", settings, env)]}
                        /\ issued' = issued \cup {<<"video", heroId>>}
                        /\ last' = Ran("video", heroId, "issued")
  /\ UNCHANGED <<service, inputData, step, error, showSettings, isLoadingState, db, dbq>>
  /\ Effect(analysis # NULL /\ analysis' # analysis)

\* lines 185-191: generateProductVideo resolved
videoResolved(op) ==
  /\ op \in ops /\ op.kind = "video"
  /\ op.threw = NULL
  /\ ops' = ops \ {op}
  /\ analysis' = setHeroVideo(analysis, op.id,
                              [videoStatus |-> "completed",
                               generatedVideoUrl |-> VideoUrl(op.n)])
  /\ last' = Ran("video", op.id, "completed")
  /\ UNCHANGED <<service, inputData, step, error, showSettings, isLoadingState, db, dbq, count, issued>>
  /\ Effect(analysis # NULL)

\* lines 192-207: generateProductVideo rejected with e
videoRejected(op, e) ==
  /\ op \in ops /\ op.kind = "video"
  /\ op.threw # NULL => e = op.threw
  /\ ops' = ops \ {op}
  /\ IF MessageThrows(e)
     THEN /\ UNCHANGED <<analysis, error, showSettings>>
          /\ last' = Threw("video", op.id, "uncaught", e)
     ELSE /\ error' = <<"Video Generation Failed:">> \o
                      (IF HasMessage(e) THEN e.message ELSE <<Undefined>>)
          /\ IF ~HasMessage(e)
             THEN /\ UNCHANGED <<analysis, showSettings>>
                  /\ last' = Threw("video", op.id, "uncaught", e)
             ELSE /\ showSettings' = (showSettings \/ isPermissionError(e))
                  /\ analysis' = setHeroVideo(analysis, op.id, [videoStatus |-> "failed"])
                  /\ last' = Threw("video", op.id, "failed", e)
  /\ UNCHANGED <<service, inputData, step, isLoadingState, db, dbq, count, issued>>
  /\ Effect(analysis # NULL /\ HasMessage(e))

\* rejection values of a generation call
GenerationRejections ==
  {ErrorOf(<<"403">>), ErrorOf(<<"Permission Denied">>),
   ErrorOf(<<"No image data in response">>), ErrorOf(<<>>),
   NoMessageValue, NullishValue}

\* identifiers the handlers are called with
SectionCallIds == {SectionIds[k] : k \in 1..MaxSections} \cup {AbsentId}
HeroCallIds == {HeroIds[k] : k \in 1..MaxHeroes} \cup {AbsentId}

Generation ==
  \/ \E id \in SectionCallIds : handleGenerateSection(id)
  \/ \E id \in HeroCallIds : handleGenerateHeroImage(id)
  \/ \E op \in ops : imageResolved(op)
  \/ \E op \in ops, e \in GenerationRejections : imageRejected(op, e)
  \/ \E id \in HeroCallIds : handleGenerateHeroVideo(id)
  \/ \E op \in ops : videoResolved(op)
  \/ \E op \in ops, e \in GenerationRejections : videoRejected(op, e)

(***************************************************************************)
(* The merge-patch and delete handlers (App.tsx 252-280) and the edit      *)
(* forms that call them.                                                   *)
(***************************************************************************)
\* lines 253-259 toggling the editing flag an update names instead of
\* storing it
updateSectionsToggling(prev, id, updates) ==
  IF prev = NULL THEN NULL
  ELSE [prev EXCEPT !.sections =
          [i \in DOMAIN prev.sections |->
             IF prev.sections[i].id = id
             THEN Spread(Spread(prev.sections[i], updates),
                         IF "isEditing" \in DOMAIN updates
                         THEN [isEditing |-> ~prev.sections[i].isEditing]
                         ELSE <<>>)
             ELSE prev.sections[i]]]

\* App.tsx 253-259: the functional update of handleUpdateSection
updateSections(prev, id, updates) ==
  IF prev = NULL THEN NULL
  ELSE [prev EXCEPT !.sections =
          [i \in DOMAIN prev.sections |->
             IF prev.sections[i].id = id
             THEN Spread(prev.sections[i], updates)
             ELSE prev.sections[i]]]

\* App.tsx 263-269: the functional update of handleUpdateHeroImage
updateHeroImages(prev, id, updates) ==
  IF prev = NULL THEN NULL
  ELSE [prev EXCEPT !.heroImages =
          [i \in DOMAIN prev.heroImages |->
             IF prev.heroImages[i].id = id
             THEN Spread(prev.heroImages[i], updates)
             ELSE prev.heroImages[i]]]

\* lines 273-279 with the filter's test inverted
deleteSectionsInverted(prev, id) ==
  IF prev = NULL THEN NULL
  ELSE LET keep(s) == s.id = id
       IN [prev EXCEPT !.sections = SelectSeq(prev.sections, keep)]

\* lines 273-279 written as splice(findIndex(id), 1): an index of -1 removes
\* the last section
deleteSectionsSplice(prev, id) ==
  IF prev = NULL THEN NULL
  ELSE LET found == FindIndex(prev.sections, id)
           at == IF found = 0 THEN Len(prev.sections) ELSE found
       IN [prev EXCEPT !.sections =
             [i \in 1..(IF Len(prev.sections) = 0 THEN 0 ELSE Len(prev.sections) - 1) |->
                IF i < at THEN prev.sections[i] ELSE prev.sections[i + 1]]]

\* App.tsx 273-279: the functional update of handleDeleteSection
deleteSections(prev, id) ==
  IF prev = NULL THEN NULL
  ELSE LET keep(s) == s.id # id
       IN [prev EXCEPT !.sections = SelectSeq(prev.sections, keep)]

\* what a call on `items` with `id` meets
Met(items, id) ==
  IF analysis = NULL THEN "no plan"
  ELSE IF FindIndex(items, id) = 0 THEN "absent" ELSE "found"

\* the controls of an item are rendered with the plan, outside step Input
\* (App.tsx 425); a call that meets no item is the handler called directly
Reachable(met) == met = "found" => step # StepInput

handleUpdateSection(id, updates) ==
  /\ ~isLoadingState /\ count < MaxActions
  /\ LET met == Met(IF analysis = NULL THEN <<>> ELSE analysis.sections, id)
     IN /\ Reachable(met)
        /\ last' = [act |-> "handleUpdateSection", id |-> id, res |-> met,
                    updates |-> updates]
  /\ analysis' = updateSections(analysis, id, updates)
  /\ count' = count + 1
  /\ UNCHANGED <<service, inputData, step, error, showSettings, isLoadingState, db, dbq, ops, issued>>
  /\ Effect(analysis # NULL)

handleUpdateHeroImage(id, updates) ==
  /\ ~isLoadingState /\ count < MaxActions
  /\ LET met == Met(IF analysis = NULL THEN <<>> ELSE analysis.heroImages, id)
     IN /\ Reachable(met)
        /\ last' = [act |-> "handleUpdateHeroImage", id |-> id, res |-> met,
                    updates |-> updates]
  /\ analysis' = updateHeroImages(analysis, id, updates)
  /\ count' = count + 1
  /\ UNCHANGED <<service, inputData, step, error, showSettings, isLoadingState, db, dbq, ops, issued>>
  /\ Effect(analysis # NULL)

handleDeleteSection(id) ==
  /\ ~isLoadingState /\ count < MaxActions
  /\ LET met == Met(IF analysis = NULL THEN <<>> ELSE analysis.sections, id)
     IN /\ Reachable(met)
        /\ last' = Ran("handleDeleteSection", id, met)
  /\ analysis' = deleteSections(analysis, id)
  /\ count' = count + 1
  /\ UNCHANGED <<service, inputData, step, error, showSettings, isLoadingState, db, dbq, ops, issued>>
  /\ Effect(analysis # NULL)

\* Preview.tsx 349-356 (CarouselControl)
getDefaultVideoPrompt(type) ==
  CASE type = "front_80" ->
         "Slow pan camera showing the full product, clean white background, 4k quality."
    [] type = "detail_zoom" ->
         "Slow zoom in to show the fabric texture and material details, macro shot."
    [] type = "scenario_life" ->
         "Cinematic lifestyle shot, natural movement, soft lighting."
    [] OTHER -> "Slow cinematic movement showcasing the product."

\* `x || d` on an optional string
OrElse(x, d) == IF x \in {Undefined, ""} THEN d ELSE x

\* the reference images offered by the form's <select>, and the value the
\* form starts with (SectionControl.tsx 35, 182-192)
FormRefs(item) ==
  {OrElse(item.referenceImageId, "")}
    \cup (IF inputData = NULL THEN {} ELSE {img.id : img \in Range(inputData.referenceImages)})

\* SectionControl.tsx 38-44 (handleSave): the updates a saved form carries
SectionForms(section) ==
  {[imagePrompt |-> UserPrompt, referenceImageId |-> r, isEditing |-> FALSE] :
     r \in FormRefs(section)}

\* Preview.tsx 358-361 (CarouselControl.handleSave)
HeroForms(hero) ==
  {[imagePrompt |-> ip, videoPrompt |-> vp, referenceImageId |-> r, isEditing |-> FALSE] :
     ip \in {hero.imagePrompt, UserPrompt},
     vp \in {OrElse(hero.videoPrompt, getDefaultVideoPrompt(hero.type)), UserPrompt},
     r \in FormRefs(hero)}

\* the updates of a direct call with an identifier that meets no item
DirectUpdates == {[imagePrompt |-> UserPrompt, isEditing |-> FALSE]}

Editing ==
  \/ \E id \in SectionCallIds :
       \E updates \in (IF analysis # NULL /\ FindIndex(analysis.sections, id) # 0
                       THEN SectionForms(analysis.sections[FindIndex(analysis.sections, id)])
                       ELSE DirectUpdates) :
         handleUpdateSection(id, updates)
  \/ \E id \in HeroCallIds :
       \E updates \in (IF analysis # NULL /\ FindIndex(analysis.heroImages, id) # 0
                       THEN HeroForms(analysis.heroImages[FindIndex(analysis.heroImages, id)])
                       ELSE DirectUpdates) :
         handleUpdateHeroImage(id, updates)
  \/ \E id \in SectionCallIds : handleDeleteSection(id)

\* Preview.tsx 515-520, the generate-video button of the video edit panel:
\* `handleSave(); onGenerateVideo(heroImage.id)` in one click.  handleSave
\* queues the merge of the form (App.tsx 263-269); handleGenerateHeroVideo
\* then runs with the `analysis` of the render the button belongs to, and
\* its own functional update is applied after the merge.
onClickGenerateVideo(heroId, editForm) ==
  /\ ~isLoadingState /\ count < MaxActions
  /\ count' = count + 1
  /\ analysis # NULL /\ step # StepInput
  /\ LET idx == FindIndex(analysis.heroImages, heroId)
         hero == analysis.heroImages[idx]
         saved == updateHeroImages(analysis, heroId, Spread(editForm, [isEditing |-> FALSE]))
     IN /\ idx # 0 /\ hero.videoStatus # "generating"
        /\ IF ~hasImage(hero)
           THEN /\ analysis' = saved
                /\ UNCHANGED <<ops, issued>>
                /\ last' = Ran("onClickGenerateVideo", heroId, "rejected")
           ELSE /\ analysis' = setHeroVideo(saved, heroId, [videoStatus |-> "generating"])
                /\ ops' = ops \cup
                     {[kind |-> "video", id |-> heroId, n |-> count + 1,
                       image |-> hero.generatedImageUrl,
                       prompt |-> IF hero.videoPrompt \in {Undefined, ""}
                                  THEN "Slow cinematic pan"
                                  ELSE hero.videoPrompt,
                       threw |-> preflight("video", settings, env)]}
                /\ issued' = issued \cup {<<"video", heroId>>}
                /\ last' = Ran("onClickGenerateVideo", heroId, "issued")
  /\ UNCHANGED <<service, inputData, step, error, showSettings, isLoadingState, db, dbq>>
  /\ Effect(TRUE)

Lifecycle ==
  \/ \E o \in DbOutcomes : loadState(o)
  \/ \E data \in SessionInputs : handleStart(data)
  \/ \E o \in DbOutcomes : handleStartCleared(o)
  \/ \E op \in ops, result \in SessionResponses : analysisResolved(op, result)
  \/ \E op \in ops, err \in AnalysisRejections : analysisRejected(op, err)
  \/ handleReset
  \/ \E o \in DbOutcomes : handleResetCleared(o)
  \/ timerFired
  \/ \E o \in DbOutcomes : saveAppState(o)
  \/ reload

Next == Lifecycle \/ Generation \/ Editing

Spec == Init /\ [][Next]_vars

(***************************************************************************)
(* The analysis and the choice of the reference image over every input:     *)
(* each list of labelled images, and responses whose items carry every     *)
(* kind of referenceImageId and of status.                                 *)
(***************************************************************************)
ImageLabels == {"main", "detail"}

WideInputs ==
  {[referenceImages |-> [k \in 1..n |-> RefImage(k, lab[k])]] :
     n \in 1..MaxImages, lab \in [1..MaxImages -> ImageLabels]}

\* referenceImageId of a response item: not set, empty, the id of an
\* uploaded image, or an id no upload has
ResponseRefs == {Undefined, "", ImageIds[1], ImageIds[MaxImages], AbsentId}
\* status of a response item: not set (the schema has no such field), or set
ResponseStatuses == {Undefined} \cup ItemStatus

WideResponses ==
  {[refinedTitle |-> PlanTitle, heroImages |-> [k \in 1..MaxHeroes |-> RespHero(k, HeroIds[k], ref, raw)],
    sections |-> [k \in 1..MaxSections |-> RespSection(k, SectionIds[k], ref, raw)]] :
     ref \in ResponseRefs, raw \in ResponseStatuses}

NextWide ==
  \/ loadState("ok")
  \/ \E data \in WideInputs : handleStart(data)
  \/ handleStartCleared("ok")
  \/ \E op \in ops, result \in WideResponses : analysisResolved(op, result)
  \/ \E id \in SectionCallIds : handleGenerateSection(id)
  \/ \E id \in HeroCallIds : handleGenerateHeroImage(id)
  \/ \E op \in ops : imageResolved(op)

SpecWide == Init /\ [][NextWide]_vars

(***************************************************************************)
(* The edit handlers over every plan and every set of partial fields.      *)
(***************************************************************************)
\* the k-th section / hero of a plan in a given status
PlanSection(k, status) ==
  Spread(RespSection(k, SectionIds[k], ImageIds[1], Undefined),
         [status |-> IF IsTextOnly(RespSectionType[k]) THEN "completed" ELSE status,
          generatedImageUrl |-> IF status = "completed" /\ ~IsTextOnly(RespSectionType[k])
                                THEN ImageUrl(k) ELSE NoUrl,
          isEditing |-> FALSE])

PlanHero(k, status) ==
  Spread(RespHero(k, HeroIds[k], ImageIds[1], Undefined),
         [status |-> status, videoStatus |-> "pending",
          generatedImageUrl |-> IF status = "completed" THEN ImageUrl(k) ELSE NoUrl,
          isEditing |-> FALSE])

EditPlans ==
  {[refinedTitle |-> PlanTitle, heroImages |-> [k \in 1..MaxHeroes |-> PlanHero(k, hs)],
    sections |-> [k \in 1..n |-> PlanSection(k, st[k])]] :
     n \in 0..MaxPlanSections, hs \in {"pending", "completed"},
     st \in [1..MaxPlanSections -> {"pending", "completed"}]}

\* Partial<GeneratedSection> / Partial<HeroImage>: no field, a text edit, a
\* saved form, a status transition, the editing flag, another identifier
EditPatches ==
  {<<>>,
   [imagePrompt |-> UserPrompt],
   [imagePrompt |-> UserPrompt, referenceImageId |-> "", isEditing |-> FALSE],
   [status |-> "failed", generatedImageUrl |-> NoUrl],
   [isEditing |-> TRUE],
   [id |-> SectionIds[2]]}

EditSectionIds == {SectionIds[k] : k \in 1..MaxPlanSections} \cup {AbsentId}

InitEdit ==
  /\ step = StepPlanning
  /\ inputData \in SessionInputs
  /\ analysis \in EditPlans
  /\ error = NoError
  /\ showSettings = FALSE
  /\ isLoadingState = FALSE
  /\ timer = AutoSave(inputData, analysis, step, FALSE)
  /\ db = NULL
  /\ dbq = <<>>
  /\ ops = {}
  /\ count = MaxActions - MaxEdits
  /\ issued = {}
  /\ last = Ran("mount", "", "")
  /\ Configured

NextEdit ==
  \/ \E id \in EditSectionIds, updates \in EditPatches : handleUpdateSection(id, updates)
  \/ \E id \in HeroCallIds, updates \in EditPatches : handleUpdateHeroImage(id, updates)
  \/ \E id \in EditSectionIds : handleDeleteSection(id)

SpecEdit == InitEdit /\ [][NextEdit]_vars

(***************************************************************************)
(* generateGrokVideo (geminiService 374-431), one invocation.  Each step   *)
(* runs from one await to the next; `grok` holds the position (pc), the    *)
(* loop counter i, the requests and status polls sent so far, what the     *)
(* last poll came to (answer), and the value returned or thrown (result).  *)
(***************************************************************************)
maxAttempts == 60

\* the submit request: a task id, a status that is not ok, a body without
\* success or task id, or a fetch / json() that rejects
SubmitOutcomes == {"task", "notOk", "noTask", "threw"}

\* one status poll: ok with another status, not ok, ok 'completed' with and
\* without video_url, ok 'failed', or a fetch / json() that rejects
PollOutcomes == {"pending", "notOk", "completed", "completedNoUrl", "failed", "threw"}

GrokUrl == <<"video_url">>
GrokGenerationFailed == ErrorOf(<<"Grok Generation Failed:">>)
GrokError == ErrorOf(<<"Grok Error:">>)
GrokTaskFailed == ErrorOf(<<"Grok Task Failed:">>)
TimedOut == ErrorOf(<<"Video generation timed out">>)
FetchError == ErrorOf(<<"Failed to fetch">>)

\* the loop body in which a response that is not ok leaves i as it is
afterPollOkCounted(g, o) ==
  LET polled == [g EXCEPT !.requests = @ + 1, !.polls = @ + 1, !.answer = o]
  IN IF o = "threw" THEN [polled EXCEPT !.pc = "threw", !.result = FetchError]
     ELSE IF o = "completed" THEN [polled EXCEPT !.pc = "returned", !.result = GrokUrl]
     ELSE IF o = "failed" THEN [polled EXCEPT !.pc = "threw", !.result = GrokTaskFailed]
     ELSE IF o = "notOk" THEN polled
     ELSE IF g.i + 1 < maxAttempts THEN [polled EXCEPT !.i = @ + 1]
     ELSE [polled EXCEPT !.i = @ + 1, !.pc = "threw", !.result = TimedOut]

\* lines 412-430: one pass of the loop body from the poll's answer o, with
\* the i++ and the loop test after it, and the throw of line 430 on exit
afterPoll(g, o) ==
  LET polled == [g EXCEPT !.requests = @ + 1, !.polls = @ + 1, !.answer = o]
  IN IF o = "threw" THEN [polled EXCEPT !.pc = "threw", !.result = FetchError]
     ELSE IF o = "completed" THEN [polled EXCEPT !.pc = "returned", !.result = GrokUrl]
     ELSE IF o = "failed" THEN [polled EXCEPT !.pc = "threw", !.result = GrokTaskFailed]
     ELSE IF g.i + 1 < maxAttempts THEN [polled EXCEPT !.i = @ + 1]
     ELSE [polled EXCEPT !.i = @ + 1, !.pc = "threw", !.result = TimedOut]

\* line 379, then up to the `await fetch` of line 384
generateGrokVideo(apiKey) ==
  /\ grok.pc = "idle"
  /\ grok' = IF Falsy(apiKey)
             THEN [grok EXCEPT !.pc = "threw", !.result = GrokKeyMissing]
             ELSE [grok EXCEPT !.pc = "submit", !.requests = 1]
  /\ UNCHANGED <<appState, timer, db, dbq, ops, count, issued, last, settings, env, picker, canvas>>

\* lines 399-411: the submit request settled; the loop is entered with i = 0
grokSubmitted(o) ==
  /\ grok.pc = "submit"
  /\ grok' = IF o = "task" THEN [grok EXCEPT !.pc = "poll"]
             ELSE [grok EXCEPT !.pc = "threw",
                               !.result = IF o = "notOk" THEN GrokGenerationFailed
                                          ELSE IF o = "noTask" THEN GrokError
                                          ELSE FetchError]
  /\ UNCHANGED <<appState, timer, db, dbq, ops, count, issued, last, settings, env, picker, canvas>>

\* lines 413-428: the 5 s timer fired, the poll was sent and settled
grokPolled(o) ==
  /\ grok.pc = "poll"
  /\ grok' = afterPoll(grok, o)
  /\ UNCHANGED <<appState, timer, db, dbq, ops, count, issued, last, settings, env, picker, canvas>>

NextGrok ==
  \/ \E apiKey \in {Undefined, "", "key"} : generateGrokVideo(apiKey)
  \/ \E o \in SubmitOutcomes : grokSubmitted(o)
  \/ \E o \in PollOutcomes : grokPolled(o)

\* every request settles and every timer fires
SpecGrok ==
  /\ Init /\ [][NextGrok]_vars
  /\ WF_vars(\E o \in SubmitOutcomes : grokSubmitted(o))
  /\ WF_vars(\E o \in PollOutcomes : grokPolled(o))

(***************************************************************************)
(* The session with its credentials: the settings modal saves what the     *)
(* user typed, and each call of the service reads the settings when it is  *)
(* made.  No persistence of the draft here.                                *)
(***************************************************************************)
\* what the fields of the modal hold when Save is pressed
SettingsForms ==
  [googleApiKey : KeyInputs, videoProvider : {"google", "grok"}, grokApiKey : KeyInputs]

\* SettingsModal.tsx 34-41 (the modal is opened from the header, App.tsx 365)
handleSaveSettings(form) ==
  /\ ~isLoadingState /\ count < MaxActions
  /\ count' = count + 1
  /\ settings' = [googleApiKey |-> Trim(form.googleApiKey),
                  videoProvider |-> form.videoProvider,
                  grokApiKey |-> Trim(form.grokApiKey)]
  /\ showSettings' = FALSE
  /\ last' = Ran("saveSettings", "", "saved")
  /\ UNCHANGED <<step, inputData, analysis, error, isLoadingState,
                 timer, db, dbq, ops, issued, env, grok, picker, canvas>>

\* rejections of a call that sent its request, and the two thrown before it
KeyRejections == {ApiKeyNotSet, GrokKeyMissing, ErrorOf(<<"No image data in response">>)}

\* first visit or a stored key; a build with or without process.env.API_KEY
InitKeys ==
  /\ Mounted
  /\ db = NULL
  /\ dbq = <<DbRequest("load", "loadState", NULL)>>
  /\ count = 0
  /\ issued = {}
  /\ last = Ran("mount", "", "")
  /\ settings \in {NoSettings,
                   [googleApiKey |-> "key", videoProvider |-> "google", grokApiKey |-> ""]}
  /\ env \in {Undefined, "envKey"}
  /\ grok = GrokIdle
  /\ picker = NoUploads
  /\ canvas = NULL

NextKeys ==
  \/ loadState("ok")
  \/ \E form \in SettingsForms : handleSaveSettings(form)
  \/ \E data \in SessionInputs : handleStart(data)
  \/ handleStartCleared("ok")
  \/ \E op \in ops, result \in SessionResponses : analysisResolved(op, result)
  \/ \E op \in ops, err \in KeyRejections : analysisRejected(op, err)
  \/ \E id \in HeroCallIds : handleGenerateHeroImage(id)
  \/ \E id \in SectionCallIds : handleGenerateSection(id)
  \/ \E op \in ops : imageResolved(op)
  \/ \E op \in ops, e \in KeyRejections : imageRejected(op, e)
  \/ \E id \in HeroCallIds : handleGenerateHeroVideo(id)
  \/ \E op \in ops : videoResolved(op)
  \/ \E op \in ops, e \in KeyRejections : videoRejected(op, e)

SpecKeys == InitKeys /\ [][NextKeys]_vars

(***************************************************************************)
(* The analysis call with what the remote service can answer               *)
(* (geminiService 233-249) and what handleStart does with it.              *)
(***************************************************************************)
\* response.text: absent, a string that is no JSON (the empty one too), or
\* the JSON text of a value; the values are plans and what lacks a list
NoText == [text |-> Undefined]
PlainText(s) == [text |-> "string", string |-> s]
JsonText(v) == [text |-> "json", value |-> v]
ResponseTexts ==
  {NoText, PlainText(""), PlainText("<html>")}
    \cup {JsonText(v) : v \in SessionResponses}
    \cup {JsonText(v) : v \in {NULL, [refinedTitle |-> PlanTitle],
                               [refinedTitle |-> PlanTitle, sections |-> <<>>],
                               [refinedTitle |-> PlanTitle, heroImages |-> <<>>]}}

NoAnalysisGenerated == ErrorOf(<<"No analysis generated">>)
JsonSyntaxError == ErrorOf(<<"Unexpected token '<'">>)
\* generateContent rejecting: an ApiError with the status, or an Error with
\* an empty message
UpstreamErrors == {ErrorOf(<<"403">>), ErrorOf(<<>>)}

\* lines 248-249: the value returned, or the error thrown
analyzeProductData(response) ==
  IF response = NoText \/ response = PlainText("") THEN [threw |-> NoAnalysisGenerated]
  ELSE IF response.text = "string" THEN [threw |-> JsonSyntaxError]
  ELSE [returned |-> response.value]

\* the call answered with `text`: line 86 resumes with the value or the error
analysisAnswered(op, text) ==
  LET outcome == analyzeProductData(text)
  IN IF "threw" \in DOMAIN outcome
     THEN analysisRejected(op, outcome.threw)
     ELSE analysisResolved(op, outcome.returned)

NextAnalysis ==
  \/ loadState("ok")
  \/ \E data \in SessionInputs : handleStart(data)
  \/ handleStartCleared("ok")
  \/ \E op \in ops, text \in ResponseTexts : analysisAnswered(op, text)
  \/ \E op \in ops, err \in UpstreamErrors : analysisRejected(op, err)
  \/ handleReset
  \/ handleResetCleared("ok")
  \/ \E id \in SectionCallIds : handleGenerateSection(id)
  \/ \E op \in ops : imageResolved(op)

SpecAnalysis == Init /\ [][NextAnalysis]_vars

(***************************************************************************)
(* The plan at full size: the responses the prompt asks for (five hero     *)
(* images, eight sections) and responses the schema of geminiService       *)
(* 176-231 admits as well: a list that is shorter, a type that comes       *)
(* twice, an identifier that comes twice.                                  *)
(***************************************************************************)
PlanResponses ==
  LET heroIds == <<"h1", "h2", "h3", "h4", "h5">>
      sectionIds == <<"s1", "s2", "s3", "s4", "s5", "s6", "s7", "s8">>
      hero(k, type) == RespHero(type, heroIds[k], ImageIds[1], Undefined)
      section(k, type, id) ==
        [RespSection(1, id, ImageIds[1], Undefined) EXCEPT !.type = DouyinSectionType[type]]
      heroes == [k \in DOMAIN HeroImageType |-> hero(k, k)]
      sections == [k \in DOMAIN DouyinSectionType |-> section(k, k, sectionIds[k])]
      plan(hs, ss) == [refinedTitle |-> PlanTitle, heroImages |-> hs, sections |-> ss]
  IN {plan(heroes, sections),
      plan(SubSeq(heroes, 1, Len(heroes) - 1), sections),
      plan([heroes EXCEPT ![5] = hero(5, 1)], sections),
      plan(heroes, [sections EXCEPT ![8] = section(8, 8, sectionIds[1])])}

NextPlan ==
  \/ loadState("ok")
  \/ \E data \in SessionInputs : handleStart(data)
  \/ handleStartCleared("ok")
  \/ \E op \in ops, result \in PlanResponses : analysisResolved(op, result)
  \/ \E id \in {"s1", "s8"} : handleDeleteSection(id)
  \/ \E id \in {"h1", "h5"} : handleGenerateHeroImage(id)
  \/ \E op \in ops : imageResolved(op)
  \/ \E op \in ops : imageRejected(op, ErrorOf(<<"No image data in response">>))
  \/ \E updates \in HeroForms(RespHero(1, "h1", ImageIds[1], "pending")) :
       handleUpdateHeroImage("h1", updates)
  \/ \E editForm \in HeroForms(RespHero(1, "h1", ImageIds[1], "pending")) :
       onClickGenerateVideo("h1", editForm)
  \/ \E op \in ops : videoResolved(op)

SpecPlan == Init /\ [][NextPlan]_vars

(***************************************************************************)
(* InputStep's uploads (InputStep.tsx 19-47).  handleFileChange starts one *)
(* FileReader per image file; each reader's onloadend closes over the      *)
(* `images` of the render in which the files were chosen.                  *)
(***************************************************************************)
\* the files at hand: MaxFiles images and one file that is no image
Files ==
  {[name |-> k, image |-> TRUE] : k \in 1..MaxFiles} \cup {[name |-> 0, image |-> FALSE]}

\* lines 24-47: `files` are chosen in one selection
handleFileChange(files) ==
  /\ files # {}
  /\ \A f \in files :
       /\ \A r \in picker.readers : r.file # f.name
       /\ \A i \in DOMAIN picker.images : picker.images[i].id # f.name
  /\ picker' = [picker EXCEPT !.readers =
                  @ \cup {[file |-> f.name, length |-> Len(picker.images)] :
                            f \in {g \in files : g.image}}]
  /\ UNCHANGED <<appState, timer, db, dbq, ops, count, issued, last,
                 settings, env, grok, canvas>>

\* lines 32-41: a reader has finished; setImages(prev => [...prev, newImage])
onloadend(reader) ==
  /\ reader \in picker.readers
  /\ picker' = [images |-> Append(picker.images,
                                  [id |-> reader.file,
                                   label |-> IF reader.length = 0 THEN "main" ELSE "detail"]),
                readers |-> picker.readers \ {reader}]
  /\ UNCHANGED <<appState, timer, db, dbq, ops, count, issued, last,
                 settings, env, grok, canvas>>

NextUpload ==
  \/ \E files \in SUBSET Files : handleFileChange(files)
  \/ \E reader \in picker.readers : onloadend(reader)

SpecUpload == Init /\ [][NextUpload]_vars

(***************************************************************************)
(* compressImage (geminiService 31-70): the size of the canvas the image   *)
(* is drawn on.                                                            *)
(***************************************************************************)
MAX_SIZE == 1024

\* widths and heights an image is loaded with
Dims ==
  {d \in 1..MaxDim : \/ d <= 3
                     \/ d % DimStep = 0
                     \/ (d >= MAX_SIZE - 2 /\ d <= MAX_SIZE + 2)}

\* lines 43-51 with `&&` for the `||` of line 43
compressImageBothOver(width, height) ==
  LET round(n, d) == (2 * n + d) \div (2 * d)
  IN IF width > MAX_SIZE /\ height > MAX_SIZE
     THEN IF width > height
          THEN [width |-> MAX_SIZE, height |-> round(height * MAX_SIZE, width)]
          ELSE [width |-> round(width * MAX_SIZE, height), height |-> MAX_SIZE]
     ELSE [width |-> width, height |-> height]

\* lines 38-54: canvas.width and canvas.height for an image of this size;
\* Math.round of a quotient of naturals is the floor of the quotient plus 1/2
compressImage(width, height) ==
  LET round(n, d) == (2 * n + d) \div (2 * d)
  IN IF width > MAX_SIZE \/ height > MAX_SIZE
     THEN IF width > height
          THEN [width |-> MAX_SIZE, height |-> round(height * MAX_SIZE, width)]
          ELSE [width |-> round(width * MAX_SIZE, height), height |-> MAX_SIZE]
     ELSE [width |-> width, height |-> height]

\* lines 36-64: the image loaded with this size; a JPEG of the canvas is returned
onload(width, height) ==
  /\ canvas' = [returned |-> "jpeg", img |-> [width |-> width, height |-> height],
                size |-> compressImage(width, height)]
  /\ UNCHANGED <<appState, timer, db, dbq, ops, count, issued, last,
                 settings, env, grok, picker>>

\* lines 65-68: the image failed to load; the original data is returned
onerror ==
  /\ canvas' = [returned |-> "original"]
  /\ UNCHANGED <<appState, timer, db, dbq, ops, count, issued, last,
                 settings, env, grok, picker>>

NextCompress ==
  \/ \E width \in Dims, height \in Dims : onload(width, height)
  \/ onerror

SpecCompress == Init /\ [][NextCompress]_vars

(***************************************************************************)
(* Properties.                                                             *)
(***************************************************************************)
\* the hero image / section a handler finds under an identifier, NULL if
\* there is no plan or no such item
ItemOf(an, kind, id) ==
  IF an = NULL THEN NULL
  ELSE LET items == IF kind = "section" THEN an.sections ELSE an.heroImages
       IN IF \E i \in DOMAIN items : items[i].id = id
          THEN items[CHOOSE i \in DOMAIN items :
                       items[i].id = id /\ \A j \in DOMAIN items : items[j].id = id => i <= j]
          ELSE NULL

\* this step is a call of the handler `act` with identifier `id`
Calls(act, id) == count' = count + 1 /\ last'.act = act /\ last'.id = id

\* C1: a video request for a hero image whose image status is not
\* 'completed' issues no call to the provider and leaves the plan unchanged
VideoGating ==
  [][\A id \in HeroCallIds :
       (/\ Calls("video", id)
        /\ ItemOf(analysis, "hero", id) # NULL
        /\ ItemOf(analysis, "hero", id).status # "completed")
       => (ops' = ops /\ analysis' = analysis)]_vars

\* a video was requested for a hero image whose regeneration failed
VideoGatingWitness ==
  /\ last = Ran("video", HeroIds[1], "rejected")
  /\ ItemOf(analysis, "hero", HeroIds[1]) # NULL
  /\ ItemOf(analysis, "hero", HeroIds[1]).status = "failed"
  /\ "hero" \in {x[1] : x \in issued}

\* C2: triggering image generation for an item that is pending, completed
\* or failed sets it to 'generating'; the settling of the request sets it
\* to 'completed' or 'failed'; no item becomes 'generating' without a
\* generation call issued for it
StatusMachine ==
  [][\A kind \in {"section", "hero"}, id \in SectionCallIds \cup HeroCallIds :
       LET before == ItemOf(analysis, kind, id)
           after == ItemOf(analysis', kind, id)
       IN /\ (/\ Calls(kind, id)
              /\ before # NULL
              /\ before.status \in {"pending", "completed", "failed"})
             => (after # NULL /\ after.status = "generating")
          /\ (/\ \E op \in ops \ ops' : op.kind = kind /\ op.id = id
              /\ after # NULL)
             => after.status \in {"completed", "failed"}
          /\ (after # NULL /\ after.status = "generating")
             => <<kind, id>> \in issued'
          /\ (/\ before # NULL /\ before.status # "generating"
              /\ after # NULL /\ after.status = "generating")
             => \E op \in ops' \ ops : op.kind = kind /\ op.id = id]_vars

\* this step resumes a generation handler with a rejection of its call
Rejects(op) == op \in ops \ ops' /\ "e" \in DOMAIN last'

\* C3: every rejection of a generation call, whatever the value, is caught,
\* sets the item's status (videoStatus for a video) to 'failed' and sets
\* the global error
FailureHandling ==
  [][\A op \in ops :
       (Rejects(op) /\ op.kind \in {"section", "hero", "video"})
       => LET item == ItemOf(analysis', op.kind, op.id)
          IN /\ last'.res # "uncaught"
             /\ error' # NoError
             /\ item # NULL =>
                  IF op.kind = "video" THEN item.videoStatus = "failed"
                  ELSE item.status = "failed"]_vars

\* C4: an image generation rejected with an error whose message names 403 or
\* Permission Denied sets the item to 'failed', sets the global error and
\* opens the settings; with any other message it sets the item to 'failed'
\* and the global error and leaves the settings flag as it was
PermissionFlag ==
  [][\A op \in ops :
       (/\ Rejects(op) /\ op.kind \in {"section", "hero"}
        /\ last'.e.kind = "Error")
       => LET item == ItemOf(analysis', op.kind, op.id)
              message == last'.e.message
          IN /\ item # NULL => item.status = "failed"
             /\ error' # NoError
             /\ IF \E i \in DOMAIN message : message[i] \in {"403", "Permission Denied"}
                THEN showSettings' = TRUE
                ELSE showSettings' = showSettings]_vars

\* an image generation was rejected with Permission Denied, and one with
\* another message while the settings were closed
PermissionFlagWitness ==
  /\ last = Threw("hero", HeroIds[1], "failed", ErrorOf(<<"Permission Denied">>))
  /\ ItemOf(analysis, "hero", HeroIds[1]) # NULL
  /\ ItemOf(analysis, "hero", HeroIds[1]).status = "failed"
  /\ showSettings /\ error # NoError

\* C5: right after a successful analysis every section of type specs_size
\* or trust_endorsement is 'completed', every other section is 'pending',
\* and every hero image has status and videoStatus 'pending', whatever
\* statuses the response carried
PlanStatuses ==
  (last.act = "handleStart" /\ last.res = "planned")
  => /\ analysis # NULL
     /\ Len(analysis.sections) = Len(last.result.sections)
     /\ Len(analysis.heroImages) = Len(last.result.heroImages)
     /\ \A i \in DOMAIN analysis.sections :
          analysis.sections[i].status =
            IF analysis.sections[i].type \in {"specs_size", "trust_endorsement"}
            THEN "completed" ELSE "pending"
     /\ \A i \in DOMAIN analysis.heroImages :
          /\ analysis.heroImages[i].status = "pending"
          /\ analysis.heroImages[i].videoStatus = "pending"

\* an analysis succeeded with a response whose items carried 'failed'
PlanStatusesWitness ==
  /\ last.act = "handleStart" /\ last.res = "planned"
  /\ last.result.sections[1].status = "failed"
  /\ last.result.heroImages[1].videoStatus = "failed"
  /\ analysis.sections[1].status = "pending"
  /\ analysis.sections[2].status = "completed"

\* C6: the reference image a generation call is issued with is the image
\* whose id is the item's referenceImageId if there is one, otherwise the
\* first image labelled 'main', otherwise the first image
ReferenceOrder ==
  [][\A op \in ops' \ ops :
       op.kind \in {"section", "hero"}
       => LET images == inputData.referenceImages
              wanted == ItemOf(analysis, op.kind, op.id).referenceImageId
              mains == {i \in DOMAIN images : images[i].label = "main"}
          IN IF \E i \in DOMAIN images : images[i].id = wanted
             THEN op.ref = wanted
             ELSE IF mains # {}
             THEN \E i \in mains : op.ref = images[i].id /\ \A j \in mains : i <= j
             ELSE op.ref = images[1].id]_vars

\* a call was issued for an item whose referenceImageId matches no image,
\* with the 'main' image second in the list
ReferenceOrderWitness ==
  /\ inputData # NULL /\ Len(inputData.referenceImages) = 2
  /\ inputData.referenceImages[1].label = "detail"
  /\ inputData.referenceImages[2].label = "main"
  /\ \E op \in ops :
       /\ op.kind = "section" /\ op.ref = ImageIds[2]
       /\ ItemOf(analysis, "section", op.id) # NULL
       /\ ItemOf(analysis, "section", op.id).referenceImageId = AbsentId

\* C7: deleteSection(id) removes the sections with that id and nothing
\* else: the other sections are kept whole and in order, and the hero
\* images and every other field of the plan are unchanged
SectionDeleted ==
  [][(count' = count + 1 /\ last'.act = "handleDeleteSection" /\ analysis # NULL)
     => LET old == analysis.sections
            new == analysis'.sections
            keep == {k \in DOMAIN old : old[k].id # last'.id}
        IN /\ analysis' # NULL
           /\ analysis' = [analysis EXCEPT !.sections = new]
           /\ Len(new) = Cardinality(keep)
           /\ \A k \in keep : new[Cardinality({j \in keep : j <= k})] = old[k]]_vars

\* the middle one of three sections was deleted, next to a completed one
SectionDeletedWitness ==
  /\ last = Ran("handleDeleteSection", SectionIds[2], "found")
  /\ analysis # NULL /\ Len(analysis.sections) = 2
  /\ analysis.sections[1].id = SectionIds[1]
  /\ analysis.sections[1].status = "completed"
  /\ analysis.sections[1].generatedImageUrl # NoUrl
  /\ analysis.sections[2].id = SectionIds[3]

\* C8: updateSection(id, p) and updateHeroImage(id, p) are idempotent:
\* applying the update again to the plan it produced changes nothing
UpdateIdempotent ==
  [][/\ (count' = count + 1 /\ last'.act = "handleUpdateSection")
        => updateSections(analysis', last'.id, last'.updates) = analysis'
     /\ (count' = count + 1 /\ last'.act = "handleUpdateHeroImage")
        => updateHeroImages(analysis', last'.id, last'.updates) = analysis']_vars

\* an update changed the editing flag of a section it found
UpdateIdempotentWitness ==
  /\ last.act = "handleUpdateSection" /\ last.res = "found"
  /\ last.id = SectionIds[1] /\ last.updates = [isEditing |-> TRUE]
  /\ ItemOf(analysis, "section", SectionIds[1]) # NULL
  /\ ItemOf(analysis, "section", SectionIds[1]).isEditing

\* the handlers that take the identifier of an item, with the kind of item
\* each looks up
ItemHandlers ==
  {<<"handleUpdateSection", "section">>, <<"handleDeleteSection", "section">>,
   <<"section", "section">>, <<"handleUpdateHeroImage", "hero">>,
   <<"hero", "hero">>, <<"video", "hero">>}

\* C9: an update, a delete or a generation trigger called with an
\* identifier the plan does not contain, or with no plan, changes neither
\* the plan, the phase nor the global error and issues no remote call
AbsentIdNoOp ==
  [][\A h \in ItemHandlers, id \in SectionCallIds \cup HeroCallIds :
       (Calls(h[1], id) /\ ItemOf(analysis, h[2], id) = NULL)
       => (/\ analysis' = analysis /\ step' = step /\ error' = error
           /\ ops' = ops /\ dbq' = dbq)]_vars

\* a section was deleted under an identifier the plan does not contain,
\* while the plan had a generation in flight
AbsentIdNoOpWitness ==
  /\ last = Ran("handleDeleteSection", AbsentId, "absent")
  /\ analysis # NULL /\ analysis.sections # <<>>
  /\ ops # {}

\* the store holds no product input, no plan and the phase 'input'
Cleared == inputData = NULL /\ analysis = NULL /\ step = StepInput

\* C10: a confirmed reset leaves the store cleared, and once it has, the
\* store stays cleared until the user starts a new project
ResetStaysCleared ==
  [][/\ last' = Ran("handleReset", "", "done") => Cleared'
     /\ (Cleared /\ ~isLoadingState /\ ~isLoadingState')
        => (Cleared' \/ last' = Ran("handleStart", "", "await"))]_vars

\* this step resumes `owner` with the outcome of its storage request
Resumes(owner) == dbq # <<>> /\ Head(dbq).owner = owner /\ Len(dbq') < Len(dbq)

\* C11: a failed storage operation never blocks or fails the foreground
\* operation: a start goes on to the analysis request, a reset clears the
\* in-memory state, and startup leaves the loading state
StorageBestEffort ==
  [][/\ Resumes("handleStart")
        => \E op \in ops' : op.kind = "analyze" /\ op.data = Head(dbq).data
     /\ Resumes("handleReset") => Cleared'
     /\ Resumes("loadState") => ~isLoadingState']_vars

\* this step changes the input, the plan or the phase
Changes == <<inputData', analysis', step'>> # <<inputData, analysis, step>>

\* this step is a scheduled save firing: it issues a save request
SaveFires == Len(dbq') > Len(dbq) /\ dbq'[Len(dbq')].req = "save"

\* C12 as stated: every change of input, plan or phase outside phase
\* 'input' schedules a save of the latest input, plan and phase, a pending
\* save is replaced by it, and a save that fires writes the latest state
EveryChangeSaved ==
  [][/\ (Changes /\ step' # StepInput)
        => timer' = Draft(inputData', analysis', step')
     /\ SaveFires
        => dbq'[Len(dbq')].data = Draft(inputData, analysis, step)]_vars

\* C12, amended: every change of input, plan or phase that leaves an input,
\* a plan and a phase other than 'input' schedules a save; the one pending
\* save always holds the latest input, plan and phase, and a save that
\* fires writes them and leaves no save pending
DebouncedSave ==
  [][/\ (/\ Changes /\ step' # StepInput
         /\ inputData' # NULL /\ analysis' # NULL /\ ~isLoadingState')
        => timer' = Draft(inputData', analysis', step')
     /\ timer' # NULL => timer' = Draft(inputData', analysis', step')
     /\ SaveFires
        => /\ timer # NULL /\ timer' = NULL
           /\ dbq'[Len(dbq')].data = Draft(inputData, analysis, step)]_vars

\* a save fired with a plan that had changed after the first save was
\* scheduled
DebouncedSaveWitness ==
  /\ last = Ran("autoSave", "", "await")
  /\ dbq # <<>> /\ dbq[Len(dbq)].data = Draft(inputData, analysis, step)
  /\ analysis # NULL
  /\ \E i \in DOMAIN analysis.sections : analysis.sections[i].status = "generating"

\* C13: once a reset or a start has cleared the persisted draft, the draft
\* of the project it closed does not come back: storage receives a draft
\* only from the project that is open in memory, never from one that a
\* reset has cleared, so a reload after reset finds no draft
NoDraftAfterClear ==
  [][(db' # db /\ db' # NULL)
     => /\ inputData' # NULL /\ step' # StepInput
        /\ db'.inputData = inputData']_vars

\* the polls that leave the loop running
NonTerminal == {"pending", "notOk", "completedNoUrl"}

\* what an invocation of generateGrokVideo has come to, in every state
GrokOutcome ==
  /\ grok.polls <= maxAttempts
  /\ grok.pc = "poll" => grok.polls = grok.i /\ grok.i < maxAttempts
  /\ grok.answer = "completed" <=> (grok.pc = "returned" /\ grok.result = GrokUrl)
  /\ grok.answer = "failed" <=> (grok.pc = "threw" /\ grok.result = GrokTaskFailed)
  /\ (grok.polls = maxAttempts /\ grok.answer \in NonTerminal)
       <=> (grok.pc = "threw" /\ grok.result = TimedOut)

\* C14: generateGrokVideo sends at most 60 status polls after the submit
\* and always terminates: it returns the URL at the first poll answering
\* 'completed' with a URL, throws at the first poll answering 'failed', and
\* throws the timeout error exactly when 60 polls were answered and none was
\* terminal, answers that are not ok included.
GrokPolling ==
  /\ []GrokOutcome
  /\ (grok.pc \in {"submit", "poll"}) ~> (grok.pc \in {"returned", "threw"})

GrokPollingWitness ==
  /\ grok.pc = "threw" /\ grok.result = TimedOut
  /\ grok.polls = maxAttempts /\ grok.answer = "notOk"

\* the credential the claim requires for a call of this kind is missing
Missing(kind) ==
  IF kind = "video" /\ settings.videoProvider = "grok"
  THEN settings.grokApiKey \in {Undefined, ""}
  ELSE /\ settings.googleApiKey \in {Undefined, "", "  "}
       /\ env \in {Undefined, ""}

\* C15: a call of the service made while its credential is missing throws
\* before it sends a request, and when its handler resumes the global error
\* holds the message thrown; the analysis also returns to the input phase.
MissingCredential ==
  [][/\ \A op \in ops' \ ops : Missing(op.kind) => op.threw # NULL
     /\ \A op \in ops \ ops' :
          op.threw # NULL
          => /\ \E part \in Range(op.threw.message) : part \in Range(error')
             /\ op.kind = "analyze" => step' = StepInput /\ analysis' = analysis]_vars

MissingCredentialWitness ==
  /\ last.act = "video" /\ last.res = "failed" /\ last.e = GrokKeyMissing
  /\ settings.videoProvider = "grok" /\ getApiKey(settings, env) # Undefined
  /\ ops = {}

\* this step resumes handleStart with the outcome of an analysis call
AnalysisSettles == \E op \in ops \ ops' : op.kind = "analyze"

RefIdValid(item) ==
  \/ "referenceImageId" \notin DOMAIN item
  \/ Falsy(item.referenceImageId)
  \/ /\ inputData # NULL
     /\ FindIndex(inputData.referenceImages, item.referenceImageId) # 0

\* C17: in every state with a plan, every referenceImageId that is set on a
\* hero image or a section is the id of a reference image of the current
\* input.
RefIdsValid ==
  analysis # NULL
  => /\ \A i \in DOMAIN analysis.heroImages : RefIdValid(analysis.heroImages[i])
     /\ \A i \in DOMAIN analysis.sections : RefIdValid(analysis.sections[i])

\* each type of `types` on exactly one item, and no identifier on two
OnePerType(items, types) ==
  /\ Len(items) = Len(types)
  /\ \A k \in DOMAIN types :
       \E i \in DOMAIN items :
         /\ items[i].type = types[k]
         /\ \A j \in DOMAIN items : items[j].type = types[k] => j = i
  /\ \A i, j \in DOMAIN items : items[i].id = items[j].id => i = j

\* C18: the plan stored by a successful analysis has five hero images, one
\* per archetype, and eight sections, one per module type, with identifiers
\* unique within each list; afterwards the number of hero images of the
\* open project does not change.
PlanShape ==
  [][/\ (AnalysisSettles /\ last'.res = "planned")
        => /\ OnePerType(analysis'.heroImages, HeroImageType)
           /\ OnePerType(analysis'.sections, DouyinSectionType)
     /\ (analysis # NULL /\ analysis' # NULL /\ ~AnalysisSettles)
        => Len(analysis'.heroImages) = Len(analysis.heroImages)]_vars

\* the generation call `op` is in flight and its continuation can still
\* write the status it is about: the plan has an item under its identifier
CanWrite(op) ==
  /\ op.kind \in {"section", "hero", "video"}
  /\ ItemOf(analysis, IF op.kind = "section" THEN "section" ELSE "hero", op.id) # NULL

\* C19: for each item and each kind of output, at most one generation call
\* that can still write the item's status is in flight.
OneWriter ==
  \A op1, op2 \in ops :
    (/\ CanWrite(op1) /\ CanWrite(op2)
     /\ op1.kind = op2.kind /\ op1.id = op2.id) => op1 = op2

\* `new` is `old` with the status and image of the response that settled
OwnResponse(old, new, op, resolved) ==
  /\ [new EXCEPT !.status = old.status, !.generatedImageUrl = old.generatedImageUrl] = old
  /\ IF resolved
     THEN new.status = "completed" /\ new.generatedImageUrl = ImageUrl(op.n)
     ELSE new.status = "failed" /\ new.generatedImageUrl = NoUrl

\* C20: when the response of an image generation arrives, whatever else is
\* in flight and in whatever order, the item it was issued for takes the
\* status and image of that response and keeps every other field as it is
\* (edits saved meanwhile included), and every other item and the rest of
\* the plan stay as they are.
Independent ==
  [][\A op \in ops \ ops' :
       (/\ op.kind \in {"section", "hero"} /\ analysis # NULL
        /\ last'.act = op.kind /\ last'.id = op.id)
       => /\ analysis' # NULL
          /\ [analysis' EXCEPT !.sections = analysis.sections,
                               !.heroImages = analysis.heroImages] = analysis
          /\ \A list \in {"sections", "heroImages"} :
               /\ DOMAIN analysis'[list] = DOMAIN analysis[list]
               /\ \A i \in DOMAIN analysis[list] :
                    IF (list = "sections") = (op.kind = "section")
                       /\ analysis[list][i].id = op.id
                    THEN OwnResponse(analysis[list][i], analysis'[list][i], op,
                                     last'.res = "completed")
                    ELSE analysis'[list][i] = analysis[list][i]]_vars

IndependentWitness ==
  /\ analysis # NULL /\ ops = {} /\ count = 4
  /\ \E a, b \in DOMAIN analysis.heroImages :
       /\ analysis.heroImages[a].status = "completed"
       /\ analysis.heroImages[a].generatedImageUrl = ImageUrl(2)
       /\ analysis.heroImages[a].imagePrompt = UserPrompt
       /\ analysis.heroImages[b].status = "completed"
       /\ analysis.heroImages[b].generatedImageUrl = ImageUrl(3)
       /\ last = Ran("hero", analysis.heroImages[a].id, "completed")

\* C21: the video request issued by the generate-video button of the edit
\* panel carries the prompt the click has just saved: the videoPrompt of the
\* hero image after the save.
VideoUsesSavedPrompt ==
  [][\A op \in ops' \ ops :
       (op.kind = "video" /\ last'.act = "onClickGenerateVideo")
       => op.prompt = ItemOf(analysis', "hero", op.id).videoPrompt]_vars

\* C22: of the images uploaded into the empty list, the first one added has
\* the label 'main' and every later one the label 'detail'.
DefaultLabels ==
  \A i \in DOMAIN picker.images :
    picker.images[i].label = IF i = 1 THEN "main" ELSE "detail"

\* C23: the canvas compressImage draws on has no edge over 1024; an image
\* with both edges at most 1024 keeps its size; a larger one gets 1024 for
\* its longer edge and, for the shorter one, the integer within one half of
\* shorter * 1024 / longer.
LongestEdgeBounded ==
  (canvas # NULL /\ canvas.returned = "jpeg")
  => LET w == canvas.img.width
         h == canvas.img.height
         longer == IF w > h THEN w ELSE h
         shorter == IF w > h THEN h ELSE w
         out == canvas.size
         outLonger == IF w > h THEN out.width ELSE out.height
         outShorter == IF w > h THEN out.height ELSE out.width
     IN /\ out.width <= 1024 /\ out.height <= 1024
        /\ longer <= 1024 => out = canvas.img
        /\ longer > 1024
           => /\ outLonger = 1024
              /\ 2 * longer * outShorter - longer <= 2 * shorter * 1024
              /\ 2 * shorter * 1024 <= 2 * longer * outShorter + longer

LongestEdgeBoundedWitness ==
  /\ canvas # NULL /\ canvas.returned = "jpeg"
  /\ canvas.img.width > 1024 /\ canvas.img.height < canvas.img.width
  /\ canvas.img.height > 1 /\ canvas.size.height < canvas.img.height
  /\ canvas.size.width = 1024

\* C24: the phase changes only by a start (input -> analyzing), by the
\* success of the analysis (analyzing -> planning-review), by its failure
\* (analyzing -> input), by a reset (a phase other than input -> input), and
\* by the restore of a draft when the App has mounted (input -> the draft's
\* phase, which is not input); a reload mounts the App anew in phase input.
PhaseTransitions ==
  [][step' # step =>
       \/ step = StepInput /\ step' = StepAnalyzing
          /\ last' = Ran("handleStart", "", "await")
       \/ step = StepAnalyzing /\ step' = StepPlanning
          /\ last'.act = "handleStart" /\ last'.res = "planned"
       \/ step = StepAnalyzing /\ step' = StepInput
          /\ last' = Ran("handleStart", "", "failed")
       \/ step # StepInput /\ step' = StepInput
          /\ last' = Ran("handleReset", "", "done")
       \/ step = StepInput /\ step' # StepInput /\ isLoadingState
          /\ last' = Ran("loadState", "", "restored")
       \/ step' = StepInput /\ last' = Ran("mount", "", "")]_vars

\* C25: a draft is handed to the store, and the stored draft changes to a
\* new one, only after the initial load has completed; such a draft has a
\* phase other than 'input', a ProductInput and a plan; and the load restores
\* a stored draft only if its phase is not 'input', taking its three fields.
DraftDiscipline ==
  [][LET Complete(d) == /\ ~isLoadingState
                        /\ d.step # StepInput
                        /\ d.inputData # NULL
                        /\ d.analysis # NULL
     IN /\ SaveFires => Complete(dbq'[Len(dbq')].data)
        /\ (db' # db /\ db' # NULL) => Complete(db')
        /\ last' = Ran("loadState", "", "restored")
           => /\ db # NULL /\ db.step # StepInput
              /\ Draft(inputData', analysis', step') = db]_vars

DraftDisciplineWitness ==
  /\ last = Ran("loadState", "", "restored")
  /\ db # NULL /\ db.step = StepPlanning
  /\ analysis = db.analysis /\ inputData = db.inputData

\* C26: a hero image whose video is generating or completed, or that has a
\* generated video, has the image status 'completed' and a generated image.
VideoNeedsImage ==
  analysis # NULL =>
    \A i \in DOMAIN analysis.heroImages :
      LET hero == analysis.heroImages[i]
      IN (\/ hero.videoStatus \in {"generating", "completed"}
          \/ hero.generatedVideoUrl # NoUrl)
         => (hero.status = "completed" /\ hero.generatedImageUrl # NoUrl)

\* C27: a hero image, and a section of a type that has a generate button
\* (not a text-only type), has a generated image exactly when its image
\* status is 'completed'.
ImageIffCompleted ==
  analysis # NULL =>
    /\ \A i \in DOMAIN analysis.heroImages :
         (analysis.heroImages[i].generatedImageUrl # NoUrl)
           <=> (analysis.heroImages[i].status = "completed")
    /\ \A i \in DOMAIN analysis.sections :
         ~IsTextOnly(analysis.sections[i].type)
         => ((analysis.sections[i].generatedImageUrl # NoUrl)
               <=> (analysis.sections[i].status = "completed"))

\* a hero image that has a video, so that its image had completed, and
\* whose regeneration failed: it has no image
ImageIffCompletedWitness ==
  /\ analysis # NULL
  /\ \E i \in DOMAIN analysis.heroImages :
       /\ analysis.heroImages[i].generatedVideoUrl # NoUrl
       /\ analysis.heroImages[i].status = "failed"
       /\ analysis.heroImages[i].generatedImageUrl = NoUrl
       /\ last.act = "hero" /\ last.id = analysis.heroImages[i].id

\* C28: when a plan is present, a ProductInput with at least one reference
\* image is present; in the phase 'input' no plan is present.
PlanHasInput ==
  /\ analysis # NULL => (inputData # NULL /\ inputData.referenceImages # <<>>)
  /\ step = StepInput => analysis = NULL

\* C29: a response to a generation issued for an earlier project changes
\* nothing in the plan of the current one.  The response of a call issued
\* under the current plan finds its item 'generating' (the call set it, and
\* only its response takes it out of that status), so a response that finds
\* the plan's item of its identifier in another status belongs to a plan
\* that is gone: it leaves the whole plan as it is.
LateResponseIgnored ==
  [][\A op \in ops \ ops' :
       (/\ op.kind \in {"section", "hero", "video"}
        /\ last'.act = op.kind /\ last'.id = op.id
        /\ analysis # NULL
        /\ LET item == ItemOf(analysis, IF op.kind = "video" THEN "hero" ELSE op.kind, op.id)
           IN /\ item # NULL
              /\ (IF op.kind = "video" THEN item.videoStatus ELSE item.status)
                   # "generating")
       => analysis' = analysis]_vars

\* C30: whenever an item's image status or video status is 'generating', a
\* generation call of that kind for that item is in flight (so that, every
\* call settling, the item reaches 'completed' or 'failed'); this includes
\* the items of a draft restored after a reload.
GeneratingInFlight ==
  analysis # NULL =>
    /\ \A i \in DOMAIN analysis.sections :
         analysis.sections[i].status = "generating"
         => \E op \in ops : op.kind = "section" /\ op.id = analysis.sections[i].id
    /\ \A i \in DOMAIN analysis.heroImages :
         /\ analysis.heroImages[i].status = "generating"
            => \E op \in ops : op.kind = "hero" /\ op.id = analysis.heroImages[i].id
         /\ analysis.heroImages[i].videoStatus = "generating"
            => \E op \in ops : op.kind = "video" /\ op.id = analysis.heroImages[i].id

====
